---- MODULE Spec2Model ----
(***************************************************************************)
(* One run of the S3 compression pipeline: scan -> build -> upload ->      *)
(* (optional) delete, as implemented by the two entry points               *)
(*   lambda_handler  (src/lambda_function.py)                              *)
(*   main            (src/s3_compression.py)                               *)
(* Strings are sequences of one-character strings so that basename,        *)
(* splitext, lower and endswith are computed the way the code does.        *)
(***************************************************************************)
EXTENDS Integers, Sequences, FiniteSets, TLC

\* ---------------------------------------------------------------- bounds
MaxObjs == 3        \* longest bucket listing drawn
MaxKeys == 2        \* listing page size (stands for 'MaxKeys': 1000)
MaxTime == 3        \* lastModified is drawn from 1..MaxTime
MaxFilesBound == 3  \* MAX_FILES is drawn from 0..MaxFilesBound
MaxTimeBack == 1    \* the age cutoff, in minutes, is drawn from 0..MaxTimeBack

\* the single "now" snapshot of the run (datetime.now())
Now == MaxTime + 1

\* ------------------------------------------------------- string helpers
RECURSIVE LastIndexOf(_, _, _)
\* largest i <= n with s[i] = c, 0 when there is none (str.rfind + 1)
LastIndexOf(s, c, n) ==
    IF n = 0 THEN 0
    ELSE IF s[n] = c THEN n ELSE LastIndexOf(s, c, n - 1)

\* str.lower() on one character
LowerChar(c) ==
    CASE c = "Z" -> "z"
      [] c = "I" -> "i"
      [] c = "P" -> "p"
      [] c = "R" -> "r"
      [] c = "T" -> "t"
      [] c = "U" -> "u"
      [] c = "E" -> "e"
      [] OTHER -> c

\* str.lower()
Lower(s) == [i \in 1..Len(s) |-> LowerChar(s[i])]

\* str.endswith(suffix)
EndsWith(s, suffix) ==
    /\ Len(s) >= Len(suffix)
    /\ SubSeq(s, Len(s) - Len(suffix) + 1, Len(s)) = suffix

\* str.replace('/', '_')
ReplaceSlash(s) == [i \in 1..Len(s) |-> IF s[i] = "/" THEN "_" ELSE s[i]]

RECURSIVE StripUnderscore(_)
\* str.strip('_')
StripUnderscore(s) ==
    IF s = <<>> THEN s
    ELSE IF Head(s) = "_" THEN StripUnderscore(Tail(s))
    ELSE IF s[Len(s)] = "_" THEN StripUnderscore(SubSeq(s, 1, Len(s) - 1))
    ELSE s

RECURSIVE StripSpace(_)
\* str.strip()
StripSpace(s) ==
    IF s = <<>> THEN s
    ELSE IF Head(s) = " " THEN StripSpace(Tail(s))
    ELSE IF s[Len(s)] = " " THEN StripSpace(SubSeq(s, 1, Len(s) - 1))
    ELSE s

\* os.path.basename(key): what follows the last '/'
Basename(key) == SubSeq(key, LastIndexOf(key, "/", Len(key)) + 1, Len(key))

\* os.path.splitext(name): the extension starts at the last '.', unless only
\* dots precede it
Splitext(name) ==
    LET d == LastIndexOf(name, ".", Len(name))
    IN  IF d > 0 /\ \E j \in 1..(d - 1) : name[j] # "."
        THEN [name |-> SubSeq(name, 1, d - 1), ext |-> SubSeq(name, d, Len(name))]
        ELSE [name |-> name, ext |-> <<>>]

Digit(d) == <<"0", "1", "2", "3", "4", "5", "6", "7", "8", "9">>[d + 1]

RECURSIVE Str(_)
\* str(n) of a non-negative integer, as an f-string renders it
Str(n) == IF n < 10 THEN <<Digit(n)>> ELSE Str(n \div 10) \o <<Digit(n % 10)>>

\* ------------------------------------------------------- bucket contents
KeyA == <<"a", "/", "r", ".", "c">>
KeyB == <<"b", "/", "r", ".", "c">>
KeyC == <<"r", "_", "2", ".", "c">>
KeyDir == <<"d", "/">>
KeyZip == <<"e", ".", "Z", "I", "P">>
KeyEmpty == <<"f", ".", "c">>

PlainKeys == {KeyA, KeyB, KeyC}

\* 'Size' of a listed object: fixed per key, so that byte sums tell keys apart
SizeOf(k) ==
    CASE k = KeyA -> 1
      [] k = KeyB -> 2
      [] k = KeyC -> 4
      [] k = KeyEmpty -> 0
      [] OTHER -> 1

SpecialKeys == {KeyDir, KeyZip, KeyEmpty}

\* the entries a list_objects_v2 'Contents' may hold: plain files of any
\* age, and a directory marker, an archive and an empty file, each either
\* as old or as new as can be
Universe ==
    {[key |-> k, size |-> SizeOf(k), last_modified |-> t] :
        k \in PlainKeys, t \in 1..MaxTime}
    \cup {[key |-> k, size |-> SizeOf(k), last_modified |-> t] :
        k \in SpecialKeys, t \in {1, MaxTime}}

\* code point of the characters that occur in keys
CodePoint(c) ==
    CASE c = "." -> 46
      [] c = "/" -> 47
      [] c = "2" -> 50
      [] c = "I" -> 73
      [] c = "P" -> 80
      [] c = "Z" -> 90
      [] c = "_" -> 95
      [] c = "a" -> 97
      [] c = "b" -> 98
      [] c = "c" -> 99
      [] c = "d" -> 100
      [] c = "e" -> 101
      [] c = "f" -> 102
      [] c = "r" -> 114

RECURSIVE KeyBefore(_, _)
\* a sorts before b in the byte order of the key names
KeyBefore(a, b) ==
    IF b = <<>> THEN FALSE
    ELSE IF a = <<>> THEN TRUE
    ELSE IF Head(a) = Head(b) THEN KeyBefore(Tail(a), Tail(b))
    ELSE CodePoint(Head(a)) < CodePoint(Head(b))

\* bucket listings: at most MaxObjs entries, keys unique within the bucket,
\* listed in ascending order of the key names as list_objects_v2 returns
\* them; lastModified is independent of the key, so every order of ages
\* occurs
Listings ==
    UNION {{l \in [1..n -> Universe] :
              \A i, j \in 1..n : i < j => KeyBefore(l[i].key, l[j].key)} :
           n \in 0..MaxObjs}

\* the paginator yields at least one page, each of at most MaxKeys entries
NumPages(l) == IF Len(l) = 0 THEN 1 ELSE (Len(l) + MaxKeys - 1) \div MaxKeys

\* page['Contents'] of page p
PageContents(l, p) ==
    SubSeq(l, (p - 1) * MaxKeys + 1,
           IF p * MaxKeys < Len(l) THEN p * MaxKeys ELSE Len(l))

\* the environment variable SOURCE_BUCKET: unset, or set to a string
Buckets ==
    {[set |-> FALSE, value |-> <<>>],
     [set |-> TRUE, value |-> <<>>],
     [set |-> TRUE, value |-> <<"b">>]}

\* Python truthiness of os.environ.get(...)
Truthy(b) == b.set /\ b.value # <<>>

\* ----------------------------------------------------------------- state
VARIABLES
    entry,              \* "lambda" (lambda_handler) or "cli" (main)
    source_bucket,      \* SOURCE_BUCKET
    time_back_minutes,  \* time_back_minutes / TIME_BACK_MINUTES
    max_files,          \* max_files / MAX_FILES
    delete_original,    \* delete_original / DELETE_ORIGINAL
    listing,            \* what the bucket lists, in listing order
    pc,                 \* where the run stands
    next_page,          \* the page the paginator yields next
    files,              \* get_files_to_compress: the local list 'files'
    files_to_compress,  \* the list the scan returned
    idx,                \* position of the for loop over the candidates
    zip_entries,        \* the entries written into the ZipFile, in order
    successful_files,   \* create_zip_archive: the counter successful_files
    calls,              \* the calls issued on s3_client, in order
    status,             \* outcome of the run
    result              \* the statistics a completed run reports

vars ==
    <<entry, source_bucket, time_back_minutes, max_files, delete_original,
      listing, pc, next_page, files, files_to_compress, idx, zip_entries,
      successful_files, calls, status, result>>

config == <<entry, source_bucket, time_back_minutes, max_files, delete_original, listing>>

NoResult == [files_compressed |-> 0, original_size |-> 0]

\* cutoff_time = current_time - timedelta(minutes=time_back_minutes)
CutoffTime(tb) == Now - tb

\* ------------------------------------------------------------------ scan
\* the "too new" test written with > instead of >=
SkipObjectAtCutoffKept(obj, cutoff_time, n, limit) ==
    \/ obj.last_modified > cutoff_time
    \/ EndsWith(Lower(obj.key), <<".", "z", "i", "p">>)
    \/ EndsWith(obj.key, <<"/">>)
    \/ obj.size = 0
    \/ n >= limit

\* the "Skip if file doesn't meet criteria" condition
SkipObject(obj, cutoff_time, n, limit) ==
    \/ obj.last_modified >= cutoff_time
    \/ EndsWith(Lower(obj.key), <<".", "z", "i", "p">>)
    \/ EndsWith(obj.key, <<"/">>)
    \/ obj.size = 0
    \/ n >= limit

RECURSIVE ScanContentsOffByOne(_, _, _, _)
\* the cap tested with > instead of >=: one candidate too many is accepted
ScanContentsOffByOne(acc, contents, cutoff_time, limit) ==
    IF contents = <<>> THEN acc
    ELSE IF SkipObject(Head(contents), cutoff_time, Len(acc), limit + 1)
         THEN ScanContentsOffByOne(acc, Tail(contents), cutoff_time, limit)
         ELSE LET added == Append(acc, Head(contents))
              IN  IF Len(added) > limit THEN added
                  ELSE ScanContentsOffByOne(added, Tail(contents), cutoff_time, limit)

RECURSIVE ScanContents(_, _, _, _)
\* the inner loop over page['Contents']: append what is not skipped, break
\* once the list holds max_files entries
ScanContents(acc, contents, cutoff_time, limit) ==
    IF contents = <<>> THEN acc
    ELSE IF SkipObject(Head(contents), cutoff_time, Len(acc), limit)
         THEN ScanContents(acc, Tail(contents), cutoff_time, limit)
         ELSE LET added == Append(acc, Head(contents))
              IN  IF Len(added) >= limit THEN added
                  ELSE ScanContents(added, Tail(contents), cutoff_time, limit)

RECURSIVE InsertBeforeEqual(_, _)
\* an unstable insertion: x goes in front of the elements as old as it
InsertBeforeEqual(sorted, x) ==
    IF sorted = <<>> THEN <<x>>
    ELSE IF Head(sorted).last_modified < x.last_modified
         THEN <<Head(sorted)>> \o InsertBeforeEqual(Tail(sorted), x)
         ELSE <<x>> \o sorted

RECURSIVE InsertByLastModified(_, _)
\* x goes behind every element that is not newer than it
InsertByLastModified(sorted, x) ==
    IF sorted = <<>> THEN <<x>>
    ELSE IF Head(sorted).last_modified <= x.last_modified
         THEN <<Head(sorted)>> \o InsertByLastModified(Tail(sorted), x)
         ELSE <<x>> \o sorted

RECURSIVE SortByLastModified(_)
\* files.sort(key=lambda x: x['last_modified']): list.sort is stable
SortByLastModified(fs) ==
    IF fs = <<>> THEN <<>>
    ELSE InsertByLastModified(
             SortByLastModified(SubSeq(fs, 1, Len(fs) - 1)), fs[Len(fs)])

\* sum(f['size'] for f in files_to_compress)
RECURSIVE SumSizes(_)
SumSizes(fs) == IF fs = <<>> THEN 0 ELSE Head(fs).size + SumSizes(Tail(fs))

Call(op, key, ok) == [op |-> op, key |-> key, ok |-> ok]

\* ----------------------------------------------------------------- build
\* lambda_function.create_zip_archive: the name handed to writestr
ZipFilenameLambda(key) ==
    IF Basename(key) = <<>> THEN StripUnderscore(ReplaceSlash(key))
    ELSE Basename(key)

\* s3_compression.create_zip_archive: the same, then "Ensure unique filename"
ZipFilenameCli(key, namelist, n) ==
    LET zip_filename == ZipFilenameLambda(key)
        parts == Splitext(zip_filename)
    IN  IF zip_filename \in namelist
        THEN parts.name \o <<"_">> \o Str(n) \o parts.ext
        ELSE zip_filename

\* zip_file.namelist()
Namelist(entries) == {entries[i].name : i \in 1..Len(entries)}

\* the statistics computed after upload (and delete)
Statistics(fs) ==
    [files_compressed |-> Len(fs), original_size |-> SumSizes(fs)]

\* ------------------------------------------------------------ validation
\* validate_configuration() of s3_compression.py
validate_configuration(bucket, tb, limit) ==
    /\ Truthy(bucket)
    /\ StripSpace(bucket.value) # <<>>
    /\ tb > 0
    /\ limit > 0

\* lambda_handler's only check: "if not source_bucket: raise ValueError"
ValidateLambda(bucket) == Truthy(bucket)

\* the environment variable DELETE_ORIGINAL: unset, or set to a string
DeleteOriginalValues ==
    {[set |-> FALSE, value |-> <<>>],
     [set |-> TRUE, value |-> <<"t", "r", "u", "e">>],
     [set |-> TRUE, value |-> <<"T", "R", "U", "E">>],
     [set |-> TRUE, value |-> <<"f", "a", "l", "s", "e">>],
     [set |-> TRUE, value |-> <<"1">>]}

\* os.environ.get('DELETE_ORIGINAL', 'false').lower() == 'true'
ParseDeleteOriginal(v) ==
    Lower(IF v.set THEN v.value ELSE <<"f", "a", "l", "s", "e">>)
        = <<"t", "r", "u", "e">>

\* -------------------------------------------------------------- the run
Init ==
    /\ entry \in {"lambda", "cli"}
    /\ source_bucket \in Buckets
    /\ time_back_minutes \in 0..MaxTimeBack
    /\ max_files \in 0..MaxFilesBound
    /\ delete_original \in {ParseDeleteOriginal(v) : v \in DeleteOriginalValues}
    /\ listing \in Listings
    /\ pc = "start"
    /\ next_page = 1
    /\ files = <<>>
    /\ files_to_compress = <<>>
    /\ idx = 1
    /\ zip_entries = <<>>
    /\ successful_files = 0
    /\ calls = <<>>
    /\ status = "running"
    /\ result = NoResult

\* the run ends with the given outcome, reporting nothing
Finish(outcome) ==
    /\ pc' = "done"
    /\ status' = outcome

\* lambda_handler up to the scan: read the environment, check SOURCE_BUCKET
LambdaStart ==
    /\ pc = "start"
    /\ entry = "lambda"
    /\ IF ValidateLambda(source_bucket)
       THEN pc' = "scan" /\ status' = status
       ELSE Finish("failed")
    /\ UNCHANGED <<config, next_page, files, files_to_compress, idx,
                   zip_entries, successful_files, calls, result>>

\* main up to the connection test: validate_configuration()
MainStart ==
    /\ pc = "start"
    /\ entry = "cli"
    /\ IF validate_configuration(source_bucket, time_back_minutes, max_files)
       THEN pc' = "connect" /\ status' = status
       ELSE Finish("failed")
    /\ UNCHANGED <<config, next_page, files, files_to_compress, idx,
                   zip_entries, successful_files, calls, result>>

\* main: test_s3_connection(); main returns when it reports False
TestConnection ==
    /\ pc = "connect"
    /\ \E ok \in BOOLEAN :
          /\ calls' = Append(calls, Call("list_buckets", <<>>, ok))
          /\ IF ok THEN pc' = "scan" /\ status' = status
             ELSE Finish("noconn")
    /\ UNCHANGED <<config, next_page, files, files_to_compress, idx,
                   zip_entries, successful_files, result>>

\* what follows the scan's return: nothing to do, the prompt, or the build
AfterScan(fs) ==
    IF fs = <<>> THEN Finish("nofiles")
    ELSE /\ pc' = IF entry = "cli" THEN "confirm" ELSE "build"
         /\ status' = status

\* the check after the inner loop is missing: paging goes on to the last
\* page although max_files are held
ListPageNoStop ==
    /\ pc = "scan"
    /\ LET scanned == ScanContents(files, PageContents(listing, next_page),
                                   CutoffTime(time_back_minutes), max_files)
       IN  /\ calls' = Append(calls, Call("list", <<>>, TRUE))
           /\ files' = scanned
           /\ IF next_page = NumPages(listing)
              THEN /\ files_to_compress' = SortByLastModified(scanned)
                   /\ next_page' = next_page
                   /\ AfterScan(files_to_compress')
              ELSE /\ next_page' = next_page + 1
                   /\ UNCHANGED <<files_to_compress, pc, status>>
    /\ UNCHANGED <<config, idx, zip_entries, successful_files, result>>

\* get_files_to_compress: one page of the paginator is listed and filtered;
\* on the last page, or once max_files are held, the list is sorted and
\* returned
ListPage ==
    /\ pc = "scan"
    /\ LET scanned == ScanContents(files, PageContents(listing, next_page),
                                   CutoffTime(time_back_minutes), max_files)
       IN  /\ calls' = Append(calls, Call("list", <<>>, TRUE))
           /\ files' = scanned
           /\ IF Len(scanned) >= max_files \/ next_page = NumPages(listing)
              THEN /\ files_to_compress' = SortByLastModified(scanned)
                   /\ next_page' = next_page
                   /\ AfterScan(files_to_compress')
              ELSE /\ next_page' = next_page + 1
                   /\ UNCHANGED <<files_to_compress, pc, status>>
    /\ UNCHANGED <<config, idx, zip_entries, successful_files, result>>

\* the listing error is swallowed and the scan returns what it holds so far
ListFailPartial ==
    /\ pc = "scan"
    /\ calls' = Append(calls, Call("list", <<>>, FALSE))
    /\ files_to_compress' = SortByLastModified(files)
    /\ AfterScan(files_to_compress')
    /\ UNCHANGED <<config, next_page, files, idx, zip_entries,
                   successful_files, result>>

\* get_files_to_compress: the listing call raises; the scan re-raises and
\* the entry point's except clause ends the run
ListFail ==
    /\ pc = "scan"
    /\ calls' = Append(calls, Call("list", <<>>, FALSE))
    /\ Finish("failed")
    /\ UNCHANGED <<config, next_page, files, files_to_compress, idx,
                   zip_entries, successful_files, result>>

\* main: input("Proceed with compression? (y/N): ")
Confirm ==
    /\ pc = "confirm"
    /\ \E yes \in BOOLEAN :
          IF yes THEN pc' = "build" /\ status' = status
          ELSE Finish("cancelled")
    /\ UNCHANGED <<config, next_page, files, files_to_compress, idx,
                   zip_entries, successful_files, calls, result>>

\* the for loop of create_zip_archive moves to the next candidate; after
\* the last one the ZipFile is closed and the buffer returned
NextCandidate ==
    /\ idx' = idx + 1
    /\ pc' = IF idx = Len(files_to_compress) THEN "upload" ELSE "build"

\* create_zip_archive: get_object succeeds, the entry is written
FetchOk ==
    /\ pc = "build"
    /\ LET file_info == files_to_compress[idx]
           zip_filename ==
               IF entry = "cli"
               THEN ZipFilenameCli(file_info.key, Namelist(zip_entries),
                                   successful_files)
               ELSE ZipFilenameLambda(file_info.key)
       IN  /\ calls' = Append(calls, Call("get", file_info.key, TRUE))
           /\ zip_entries' = Append(zip_entries,
                  [name |-> zip_filename, key |-> file_info.key,
                   size |-> file_info.size])
    /\ successful_files' = successful_files + 1
    /\ NextCandidate
    /\ UNCHANGED <<config, next_page, files, files_to_compress, status, result>>

\* the fetch error escapes the loop and ends the run
FetchFailRaised ==
    /\ pc = "build"
    /\ calls' = Append(calls, Call("get", files_to_compress[idx].key, FALSE))
    /\ Finish("failed")
    /\ UNCHANGED <<config, next_page, files, files_to_compress, idx,
                   zip_entries, successful_files, result>>

\* create_zip_archive: get_object raises; logged, "continue"
FetchFail ==
    /\ pc = "build"
    /\ calls' = Append(calls, Call("get", files_to_compress[idx].key, FALSE))
    /\ NextCandidate
    /\ UNCHANGED <<config, next_page, files, files_to_compress, zip_entries,
                   successful_files, status, result>>

\* the run completes: statistics over files_to_compress
Complete ==
    /\ pc' = "done"
    /\ status' = "completed"
    /\ result' = Statistics(files_to_compress)

\* the delete loop starts whatever DELETE_ORIGINAL says
UploadOkAlwaysDeletes ==
    /\ pc = "upload"
    /\ calls' = Append(calls, Call("put", <<>>, TRUE))
    /\ pc' = "delete"
    /\ idx' = 1
    /\ UNCHANGED <<status, result>>
    /\ UNCHANGED <<config, next_page, files, files_to_compress, zip_entries,
                   successful_files>>

\* upload_to_s3 / upload_zip_to_s3: put_object succeeds; then the delete
\* loop starts if DELETE_ORIGINAL, else the run completes
UploadOk ==
    /\ pc = "upload"
    /\ calls' = Append(calls, Call("put", <<>>, TRUE))
    /\ IF delete_original
       THEN pc' = "delete" /\ idx' = 1 /\ UNCHANGED <<status, result>>
       ELSE Complete /\ idx' = idx
    /\ UNCHANGED <<config, next_page, files, files_to_compress, zip_entries,
                   successful_files>>

\* the upload error is swallowed and the run goes on to the delete step
UploadFailSwallowed ==
    /\ pc = "upload"
    /\ calls' = Append(calls, Call("put", <<>>, FALSE))
    /\ IF delete_original
       THEN pc' = "delete" /\ idx' = 1 /\ UNCHANGED <<status, result>>
       ELSE Finish("failed") /\ UNCHANGED <<idx, result>>
    /\ UNCHANGED <<config, next_page, files, files_to_compress, zip_entries,
                   successful_files>>

\* put_object raises: re-raised, the except clause ends the run
UploadFail ==
    /\ pc = "upload"
    /\ calls' = Append(calls, Call("put", <<>>, FALSE))
    /\ Finish("failed")
    /\ UNCHANGED <<config, next_page, files, files_to_compress, idx,
                   zip_entries, successful_files, result>>

\* delete_original_files: delete_object succeeds for the next file
DeleteOk ==
    /\ pc = "delete"
    /\ calls' = Append(calls, Call("delete", files_to_compress[idx].key, TRUE))
    /\ idx' = idx + 1
    /\ IF idx = Len(files_to_compress)
       THEN Complete
       ELSE UNCHANGED <<pc, status, result>>
    /\ UNCHANGED <<config, next_page, files, files_to_compress, zip_entries,
                   successful_files>>

\* delete_original_files: delete_object raises; the loop is inside the try,
\* the exception is re-raised and the except clause ends the run
DeleteFail ==
    /\ pc = "delete"
    /\ calls' = Append(calls, Call("delete", files_to_compress[idx].key, FALSE))
    /\ Finish("failed")
    /\ UNCHANGED <<config, next_page, files, files_to_compress, idx,
                   zip_entries, successful_files, result>>

Next ==
    \/ LambdaStart
    \/ MainStart
    \/ TestConnection
    \/ ListPage
    \/ ListFail
    \/ Confirm
    \/ FetchOk
    \/ FetchFail
    \/ UploadOk
    \/ UploadFail
    \/ DeleteOk
    \/ DeleteFail

Spec == Init /\ [][Next]_vars

\* ------------------------------------------------- vocabulary of the claims
\* the calls of one kind, in the order issued
CallsOf(op) == SelectSeq(calls, LAMBDA c : c.op = op)

KeysOf(seq) == [i \in 1..Len(seq) |-> seq[i].key]

KeySet(seq) == {seq[i].key : i \in 1..Len(seq)}

IsPrefix(a, b) == Len(a) <= Len(b) /\ a = SubSeq(b, 1, Len(a))

LastCall == calls[Len(calls)]

\* the scan has returned its candidate list to the entry point
ScanReturned ==
    \/ pc \in {"confirm", "build", "upload", "delete"}
    \/ pc = "done" /\ status \in {"nofiles", "cancelled", "completed"}
    \/ pc = "done" /\ status = "failed" /\ calls # <<>>
         /\ LastCall.op \in {"put", "delete"}

\* create_zip_archive has returned the sealed archive
BuildReturned ==
    \/ pc \in {"upload", "delete"}
    \/ pc = "done" /\ CallsOf("put") # <<>>

\* an object the selection criteria accept, whatever the cap
IsEligible(obj) ==
    /\ obj.last_modified < Now - time_back_minutes
    /\ obj.size > 0
    /\ obj.key[Len(obj.key)] # "/"
    /\ ~ \E n \in 4..Len(obj.key) :
            /\ n = Len(obj.key)
            /\ LowerChar(obj.key[n - 3]) = "."
            /\ LowerChar(obj.key[n - 2]) = "z"
            /\ LowerChar(obj.key[n - 1]) = "i"
            /\ LowerChar(obj.key[n]) = "p"

\* the eligible objects, in listing order
EligibleListing == SelectSeq(listing, IsEligible)

ElemSet(seq) == {seq[i] : i \in 1..Len(seq)}

\* position of a key in the listing
ListingIndex(k) == CHOOSE i \in 1..Len(listing) : listing[i].key = k

\* the run parameters are all valid: a source bucket, a positive age cutoff
\* and a positive maximum candidate count
ValidConfig ==
    /\ source_bucket.set
    /\ source_bucket.value # <<>>
    /\ time_back_minutes > 0
    /\ max_files > 0

\* ------------------------------------------------------------------- C1
\* C1: with delete-originals enabled, no delete call is issued for a key
\* whose fetch failed: every key passed to delete has an entry in the
\* archive, and a completed run has deleted exactly the archived keys.
C1_DeleteOnlyArchived ==
    ValidConfig =>
        /\ KeySet(CallsOf("delete")) \subseteq KeySet(zip_entries)
        /\ (status = "completed" /\ delete_original)
              => KeySet(CallsOf("delete")) = KeySet(zip_entries)

\* ------------------------------------------------------------------- C2
\* C2: a delete call is issued only after the archive put has succeeded; a
\* failed put ends the run as failed with no delete call at all, whatever
\* the delete-originals setting.
C2_DeleteOnlyAfterUpload ==
    /\ \A i \in 1..Len(calls) :
          calls[i].op = "delete"
             => \E j \in 1..(i - 1) : calls[j].op = "put" /\ calls[j].ok
    /\ (\E j \in 1..Len(calls) : calls[j].op = "put" /\ ~calls[j].ok)
          => /\ pc = "done"
             /\ status = "failed"
             /\ CallsOf("delete") = <<>>

\* a delete was issued after a successful put, and elsewhere a put failed
\* with delete-originals enabled
C2_Witness ==
    /\ delete_original
    /\ CallsOf("delete") # <<>>
    /\ \E j \in 1..Len(calls) : calls[j].op = "put" /\ calls[j].ok

\* ------------------------------------------------------------------- C3
\* more eligible objects are listed than the maximum candidate count
OverCap == Len(EligibleListing) > max_files

\* C3 (as claimed): when M > N eligible objects are listed, the scan selects
\* exactly N candidates and they are the N eligible objects with the
\* smallest lastModified: no eligible object left out is older than a
\* selected one.
C3_SelectsOldest ==
    (ValidConfig /\ ScanReturned /\ OverCap) =>
        /\ Len(files_to_compress) = max_files
        /\ \A s \in ElemSet(files_to_compress) :
              \A u \in ElemSet(EligibleListing) \ ElemSet(files_to_compress) :
                 s.last_modified <= u.last_modified

\* C3 (amended): when M > N eligible objects are listed, the scan selects
\* exactly N candidates and they are the first N eligible objects in listing
\* order.
C3_SelectsFirstListed ==
    (ScanReturned /\ OverCap) =>
        /\ Len(files_to_compress) = max_files
        /\ ElemSet(files_to_compress)
             = ElemSet(SubSeq(EligibleListing, 1, max_files))

\* the cap cut the selection, and an eligible object that was left out is
\* older than a selected one
C3_Witness ==
    /\ ScanReturned
    /\ OverCap
    /\ max_files >= 1
    /\ Len(files_to_compress) = max_files
    /\ \E s \in ElemSet(files_to_compress) :
          \E u \in ElemSet(EligibleListing) \ ElemSet(files_to_compress) :
             u.last_modified < s.last_modified

\* ------------------------------------------------------------------- C4
\* the listed object of a key
ListedObject(k) == listing[ListingIndex(k)]

\* every key the run has accepted, fetched, archived or deleted
TouchedKeys ==
    KeySet(files) \cup KeySet(files_to_compress) \cup KeySet(zip_entries)
    \cup KeySet(CallsOf("get")) \cup KeySet(CallsOf("delete"))

\* C4: every candidate of the scan was modified strictly before the cutoff,
\* has size > 0, a key not ending in '/' and a key whose lowercase form does
\* not end in '.zip'; so no object modified at or after the cutoff is ever
\* fetched, archived or deleted.
C4_CandidatesPassFilter ==
    \A k \in TouchedKeys :
        /\ \E i \in 1..Len(listing) : listing[i].key = k
        /\ ListedObject(k).last_modified < CutoffTime(time_back_minutes)
        /\ ListedObject(k).size > 0
        /\ ListedObject(k).key[Len(k)] # "/"
        /\ Len(k) >= 4
              => SubSeq(Lower(k), Len(k) - 3, Len(k)) # <<".", "z", "i", "p">>

\* a completed run with deletes whose listing held an object modified
\* exactly at the cutoff and an object the other criteria exclude
C4_Witness ==
    /\ status = "completed"
    /\ CallsOf("delete") # <<>>
    /\ \E i \in 1..Len(listing) :
          /\ listing[i].last_modified = CutoffTime(time_back_minutes)
          /\ listing[i].key \in PlainKeys
    /\ \E i \in 1..Len(listing) : listing[i].key \in SpecialKeys

\* ------------------------------------------------------------------- C5
\* C5: the candidate sequence is ascending by lastModified, candidates with
\* equal lastModified keep their listing order, and both the archive build
\* (its fetches) and the delete step visit the candidates in this order.
C5_OrderedStable ==
    /\ ScanReturned =>
          \A i, j \in 1..Len(files_to_compress) :
             i < j =>
               /\ files_to_compress[i].last_modified
                    <= files_to_compress[j].last_modified
               /\ files_to_compress[i].last_modified
                    = files_to_compress[j].last_modified
                  => ListingIndex(files_to_compress[i].key)
                       < ListingIndex(files_to_compress[j].key)
    /\ IsPrefix(KeysOf(CallsOf("get")), KeysOf(files_to_compress))
    /\ IsPrefix(KeysOf(CallsOf("delete")), KeysOf(files_to_compress))

\* three candidates, listed newest first with a tie among the older two,
\* have all been fetched and deleted
C5_Witness ==
    /\ Len(files_to_compress) = 3
    /\ Len(CallsOf("get")) = 3
    /\ Len(CallsOf("delete")) = 3
    /\ files_to_compress # files
    /\ files_to_compress[1].last_modified = files_to_compress[2].last_modified

\* ------------------------------------------------------------------- C6
\* C6: all entries written into one archive have pairwise distinct entry
\* names, also when several keys share their final path segment or a final
\* segment already has the form name_<k>.ext.
C6_DistinctEntryNames ==
    ValidConfig =>
        \A i, j \in 1..Len(zip_entries) :
            i # j => zip_entries[i].name # zip_entries[j].name

\* C6, for the entry point that disambiguates (main of s3_compression.py)
C6_DistinctEntryNamesCli ==
    (ValidConfig /\ entry = "cli") =>
        \A i, j \in 1..Len(zip_entries) :
            i # j => zip_entries[i].name # zip_entries[j].name

\* ------------------------------------------------------------------- C7
\* the keys the delete phase is to delete
DeleteSet == KeysOf(files_to_compress)

\* C7: a failed delete call is isolated: delete is still attempted for every
\* remaining key, and the run, whose archive is uploaded, finishes as
\* completed rather than as failed.
C7_DeleteFailureIsolated ==
    (/\ ValidConfig
     /\ delete_original
     /\ pc = "done"
     /\ \E j \in 1..Len(calls) : calls[j].op = "put" /\ calls[j].ok)
    => /\ status = "completed"
       /\ KeysOf(CallsOf("delete")) = DeleteSet

\* ------------------------------------------------------------------- C8
\* the get calls that succeeded, in the order issued
FetchedOk == SelectSeq(calls, LAMBDA c : c.op = "get" /\ c.ok)

\* C8: whatever subset of fetches fails, the build does not fail: every
\* candidate is tried in candidate order, the sealed archive holds one entry
\* for exactly each candidate whose fetch succeeded, in candidate order, and
\* the run goes on to upload instead of ending as failed.
C8_FetchFailureIsolated ==
    /\ pc = "build" => status = "running"
    /\ (calls # <<>> /\ LastCall.op = "get") =>
          /\ status = "running"
          /\ pc = IF Len(CallsOf("get")) = Len(files_to_compress)
                  THEN "upload" ELSE "build"
    /\ BuildReturned =>
          /\ KeysOf(CallsOf("get")) = KeysOf(files_to_compress)
          /\ KeysOf(zip_entries) = KeysOf(FetchedOk)
          /\ Len(CallsOf("put")) = IF pc = "upload" THEN 0 ELSE 1

\* fetch of candidate 2 of 3 failed: the archive holds entries 1 and 3 and
\* the run stands at the upload
C8_Witness ==
    /\ pc = "upload"
    /\ Len(files_to_compress) = 3
    /\ Len(CallsOf("get")) = 3
    /\ CallsOf("get")[1].ok
    /\ ~CallsOf("get")[2].ok
    /\ CallsOf("get")[3].ok
    /\ KeysOf(zip_entries)
         = <<files_to_compress[1].key, files_to_compress[3].key>>

\* ------------------------------------------------------------------- C9
\* C9: a completed run reports as files compressed the number of entries
\* written into the archive, and as original byte total the sum of the
\* sizes of those entries only.
C9_StatisticsOverArchived ==
    (ValidConfig /\ status = "completed") =>
        /\ result.files_compressed = Len(zip_entries)
        /\ result.original_size = SumSizes(zip_entries)

\* ------------------------------------------------------------------ C10
\* the configuration the claim calls invalid
InvalidConfig ==
    \/ ~source_bucket.set
    \/ source_bucket.value = <<>>
    \/ max_files <= 0
    \/ time_back_minutes <= 0

\* C10: a run whose configuration is invalid ends as failed before any
\* storage call: no list, get, put or delete call is issued in it.
C10_InvalidConfigFailsFast ==
    InvalidConfig =>
        /\ \A i \in 1..Len(calls) :
              calls[i].op \notin {"list", "get", "put", "delete"}
        /\ pc # "start" => (pc = "done" /\ status = "failed")

\* C10, for the entry point that validates (main of s3_compression.py)
C10_InvalidConfigFailsFastCli ==
    (InvalidConfig /\ entry = "cli") =>
        /\ calls = <<>>
        /\ pc # "start" => (pc = "done" /\ status = "failed")

\* ------------------------------------------------------------------ C11
\* a listing call has failed
ListingFailed == \E i \in 1..Len(calls) : calls[i].op = "list" /\ ~calls[i].ok

\* C11: if the listing call fails on any page, also on a page after
\* candidates were accepted from earlier pages, the scan returns no candidate
\* set and the run ends as failed, having issued no get, put or delete call.
C11_ListingFailureAborts ==
    ListingFailed =>
        /\ pc = "done"
        /\ status = "failed"
        /\ result = NoResult
        /\ files_to_compress = <<>>
        /\ zip_entries = <<>>
        /\ \A i \in 1..Len(calls) : calls[i].op \notin {"get", "put", "delete"}
        /\ LastCall.op = "list" /\ ~LastCall.ok

\* the listing failed on the second page, after the first page had yielded
\* a candidate
C11_Witness ==
    /\ ListingFailed
    /\ ValidConfig
    /\ next_page = 2
    /\ files # <<>>
    /\ Len(CallsOf("list")) = 2

\* ------------------------------------------------------------------ C12
\* the listing pages fetched so far
PagesFetched == Len(SelectSeq(calls, LAMBDA c : c.op = "list" /\ c.ok))

\* the number of eligible objects on the first p pages of the listing
EligibleOnPages(p) ==
    Len(SelectSeq(SubSeq(listing, 1,
                         IF p * MaxKeys < Len(listing) THEN p * MaxKeys
                         ELSE Len(listing)),
                  IsEligible))

\* C12: once the accepted candidates reach the configured maximum no further
\* listing page is requested, so the cap was not yet reached on any page
\* before the last one fetched; otherwise paging ends only when the listing
\* is exhausted.
C12_PagingStopsAtCap ==
    /\ \A p \in 1..(PagesFetched - 1) : EligibleOnPages(p) < max_files
    /\ PagesFetched <= NumPages(listing)
    /\ (ScanReturned /\ ~ListingFailed) =>
          \/ PagesFetched = NumPages(listing)
          \/ /\ EligibleOnPages(PagesFetched) >= max_files
             /\ Len(files_to_compress) >= max_files

\* the cap was reached on the first page of a listing that has a second
\* page, which was never requested
C12_Witness ==
    /\ ValidConfig
    /\ ScanReturned
    /\ pc = "done"
    /\ status = "completed"
    /\ NumPages(listing) >= 2
    /\ PagesFetched = 1
    /\ Len(files_to_compress) = max_files

\* ------------------------------------------------------------------ C13
\* C13: in a run where delete-originals is not enabled no delete call is
\* issued at any point, whatever the outcome of scan, build and upload; the
\* only call of the run that changes the store is the one archive put.
C13_NoDeleteWhenDisabled ==
    ~delete_original =>
        /\ CallsOf("delete") = <<>>
        /\ Len(CallsOf("put")) <= 1
        /\ \A i \in 1..Len(calls) :
              calls[i].op \in {"list_buckets", "list", "get", "put"}
        /\ pc # "delete"

\* a run without delete-originals has archived and uploaded its candidates
\* and completed
C13_Witness ==
    /\ ~delete_original
    /\ ValidConfig
    /\ status = "completed"
    /\ zip_entries # <<>>
    /\ Len(CallsOf("put")) = 1
    /\ LastCall.op = "put"

====
